---- MODULE Spec2Model ----
(***************************************************************************)
(* Arieo package manager scripts.                                          *)
(*                                                                         *)
(*   build_packages_v2.py  the Build Driver: for every (preset, build      *)
(*                         type) pair create the build directory, run the  *)
(*                         configure command, run the build command, and   *)
(*                         return at the first non-zero exit code.         *)
(*   gather_packages.py    the Manifest Gatherer: load the manifest,       *)
(*                         validate each local package's descriptor        *)
(*                         (verify_yaml) and copy it into the cache        *)
(*                         directory under the descriptor's name.          *)
(*                                                                         *)
(* The two programs share no state.  SpecBuild is the Build Driver,        *)
(* SpecVerify applies verify_yaml to one descriptor file, SpecGather is    *)
(* the Gatherer process, run up to twice on the same manifest and file     *)
(* system.  Each specification leaves the other programs' variables alone. *)
(***************************************************************************)
EXTENDS Integers, Sequences, FiniteSets, TLC

VARIABLES
    \* ---- build_packages_v2.py: main ----
    arg_preset,     \* args.preset: the --preset values, in order
    arg_build_type, \* args.build_type: the --build_type values, in order
    arg_package,    \* args.package: the --package values, in order
    bpc,            \* position in main: "off", "mkdir", "configure", "build", "finish", "returned"
    pi,             \* index of the outer loop (presets), 1-based
    ti,             \* index of the inner loop (build types), 1-based
    dirs,           \* build directories that exist, as <<preset, build_type>>
    steps,          \* the steps executed so far, in order
    build_cmd,      \* argv of the last build command run (<<>> before the first)
    banner,         \* the success banner was printed
    ret,            \* main's return value (NoRet while running)
    \* ---- gather_packages.py: verify_yaml alone ----
    vfile,          \* the file verify_yaml is applied to
    verbose,        \* verify_yaml's verbose argument
    vpc,            \* "off", "call", "returned", "raised"
    vresult,        \* verify_yaml's return value
    \* ---- gather_packages.py: main / gather_packages_from_manifest ----
    mfile,          \* the manifest file: "missing", "stat_error", "unreadable", "ok"
    manifest,       \* the loaded manifest
    clean,          \* args.clean
    superuser,      \* the process runs as a user file modes do not bind
    pkgs,           \* the package directories outside the cache directory, by path
    cache,          \* the cache directory
    gpc,            \* "off", "load", "cache_dir", "gather", "loop", "main", "exit"
    idx,            \* 1-based index of the entry the loop handles next
    copied_count,
    skipped_count,
    error_count,
    outcomes,       \* what the loop printed for the entries handled so far
    count,          \* main's count, the value gather_packages_from_manifest returned
    raised,         \* name of the exception that ended the process ("" if none)
    exit_status,    \* the process exit status (NoRet while running)
    run,            \* "first" or "second" invocation of the process
    cache_before,   \* the cache directory when the current invocation started
    snap            \* cache, counters and exit status at the end of the first invocation

buildVars == <<arg_preset, arg_build_type, arg_package, bpc, pi, ti, dirs, steps,
               build_cmd, banner, ret>>
verifyVars == <<vfile, verbose, vpc, vresult>>
gatherVars == <<mfile, manifest, clean, superuser, pkgs, cache, gpc, idx, copied_count,
                skipped_count, error_count, outcomes, count, raised, exit_status,
                run, cache_before, snap>>
vars == <<buildVars, verifyVars, gatherVars>>

\* "no value yet" for main's return value and the process exit status
NoRet == -1

(***************************************************************************)
(* Bounds of the model: the lengths of the argument lists, the largest     *)
(* exit code of a subprocess, the number of manifest entries, and the      *)
(* number of distinct contents a descriptor's other fields take.           *)
(***************************************************************************)
MaxPresets == 2
MaxBuildTypes == 2
MaxPackages == 2
MaxCode == 2
MaxEntries == 2
MaxExtra == 2

SeqsUpTo(S, n) == UNION {[1..k -> S] : k \in 0..n}

(***************************************************************************)
(* build_packages_v2.py                                                    *)
(***************************************************************************)
PresetNames == {"A", "B"}
BuildTypeNames == {"Debug", "Release"}
PackageNames == {"p1", "p2"}
Codes == 0..MaxCode

\* line 22: presets = args.preset if args.preset else ["default"]
presets == IF arg_preset # <<>> THEN arg_preset ELSE <<"default">>
\* line 23: build_types = args.build_type if args.build_type else ["Release"]
build_types == IF arg_build_type # <<>> THEN arg_build_type ELSE <<"Release">>
\* line 24: packages = args.package
packages == arg_package

\* One element of an argv list.  A literal argument has only lit set; the
\* build directory argument str(build_dir) carries the preset and build type
\* that name it (line 30: base_build_dir / preset / build_type).
Arg(s) == [lit |-> s, preset |-> "", build_type |-> ""]
DirArg(p, b) == [lit |-> "<build_dir>", preset |-> p, build_type |-> b]

\* a build command that carries --target whether or not a package was requested
BuildCmdAlwaysTarget(p, b, pk) ==
    <<Arg("cmake"), Arg("--build"), DirArg(p, b), Arg("--target")>>
        \o [i \in 1..Len(pk) |-> Arg(pk[i])]

\* lines 53-59: build_cmd = ["cmake", "--build", str(build_dir)], extended by
\* ["--target"] + packages when packages is non-empty
BuildCmd(p, b, pk) ==
    <<Arg("cmake"), Arg("--build"), DirArg(p, b)>>
        \o (IF pk # <<>>
            THEN <<Arg("--target")>> \o [i \in 1..Len(pk) |-> Arg(pk[i])]
            ELSE <<>>)

\* a configure result that is never taken as a failure
ConfigureFailedIgnored(returncode) == FALSE

\* line 46: if result.returncode != 0 (configure)
ConfigureFailed(returncode) == returncode # 0
\* line 62: if result.returncode != 0 (build)
BuildFailed(returncode) == returncode # 0

Step(op, rc) == [op |-> op, preset |-> presets[pi], build_type |-> build_types[ti], rc |-> rc]

GatherOff ==
    /\ mfile = "ok"
    /\ manifest = [has_packages |-> FALSE, packages |-> <<>>, cache_folder |-> "str"]
    /\ clean = FALSE /\ superuser = FALSE /\ pkgs = <<>> /\ cache = <<>> /\ gpc = "off" /\ idx = 0
    /\ copied_count = 0 /\ skipped_count = 0 /\ error_count = 0 /\ outcomes = <<>>
    /\ count = NoRet /\ raised = "" /\ exit_status = NoRet /\ run = "first"
    /\ cache_before = <<>> /\ snap = <<>>
VerifyOff == vfile = <<>> /\ verbose = FALSE /\ vpc = "off" /\ vresult = <<>>
BuildOff ==
    /\ arg_preset = <<>> /\ arg_build_type = <<>> /\ arg_package = <<>>
    /\ bpc = "off" /\ pi = 0 /\ ti = 0 /\ dirs = {} /\ steps = <<>>
    /\ build_cmd = <<>> /\ banner = FALSE /\ ret = NoRet

\* lines 11-26: the parsed arguments; the loops start at the first pair
InitBuild ==
    /\ arg_preset \in SeqsUpTo(PresetNames, MaxPresets)
    /\ arg_build_type \in SeqsUpTo(BuildTypeNames, MaxBuildTypes)
    /\ arg_package \in SeqsUpTo(PackageNames, MaxPackages)
    /\ bpc = "mkdir" /\ pi = 1 /\ ti = 1
    /\ dirs = {} /\ steps = <<>> /\ build_cmd = <<>>
    /\ banner = FALSE /\ ret = NoRet
    /\ VerifyOff /\ GatherOff

\* lines 30-31: build_dir.mkdir(parents=True, exist_ok=True)
MakeBuildDir ==
    /\ bpc = "mkdir"
    /\ dirs' = dirs \cup {<<presets[pi], build_types[ti]>>}
    /\ steps' = Append(steps, Step("mkdir", 0))
    /\ bpc' = "configure"
    /\ UNCHANGED <<arg_preset, arg_build_type, arg_package, pi, ti, build_cmd,
                   banner, ret>>
    /\ UNCHANGED <<verifyVars, gatherVars>>

\* lines 36-48: run the configure command; a non-zero code is returned
Configure ==
    /\ bpc = "configure"
    /\ \E returncode \in Codes :
        /\ steps' = Append(steps, Step("configure", returncode))
        /\ IF ConfigureFailed(returncode)
           THEN bpc' = "returned" /\ ret' = returncode
           ELSE bpc' = "build" /\ ret' = ret
    /\ UNCHANGED <<arg_preset, arg_build_type, arg_package, pi, ti, dirs,
                   build_cmd, banner>>
    /\ UNCHANGED <<verifyVars, gatherVars>>

\* lines 52-64: run the build command; a non-zero code is returned, otherwise
\* the inner loop moves to the next build type, the outer to the next preset
Build ==
    /\ bpc = "build"
    /\ build_cmd' = BuildCmd(presets[pi], build_types[ti], packages)
    /\ \E returncode \in Codes :
        /\ steps' = Append(steps, Step("build", returncode))
        /\ IF BuildFailed(returncode)
           THEN bpc' = "returned" /\ ret' = returncode /\ pi' = pi /\ ti' = ti
           ELSE /\ ret' = ret
                /\ IF ti < Len(build_types)
                   THEN bpc' = "mkdir" /\ ti' = ti + 1 /\ pi' = pi
                   ELSE IF pi < Len(presets)
                        THEN bpc' = "mkdir" /\ ti' = 1 /\ pi' = pi + 1
                        ELSE bpc' = "finish" /\ ti' = ti /\ pi' = pi
    /\ UNCHANGED <<arg_preset, arg_build_type, arg_package, dirs, banner>>
    /\ UNCHANGED <<verifyVars, gatherVars>>

\* lines 66-67: the success banner, return 0
Finish ==
    /\ bpc = "finish"
    /\ banner' = TRUE
    /\ ret' = 0
    /\ bpc' = "returned"
    /\ UNCHANGED <<arg_preset, arg_build_type, arg_package, pi, ti, dirs, steps,
                   build_cmd>>
    /\ UNCHANGED <<verifyVars, gatherVars>>

NextBuild == MakeBuildDir \/ Configure \/ Build \/ Finish

SpecBuild == InitBuild /\ [][NextBuild]_vars

(***************************************************************************)
(* Build Driver: claims                                                    *)
(***************************************************************************)
NPairs == Len(presets) * Len(build_types)
\* the k-th pair of the loops: outer loop presets, inner loop build types
PairPreset(k) == presets[((k - 1) \div Len(build_types)) + 1]
PairBuildType(k) == build_types[((k - 1) % Len(build_types)) + 1]
\* the j-th step of a run in which nothing fails
StepOp(j) == CASE j % 3 = 1 -> "mkdir" [] j % 3 = 2 -> "configure" [] OTHER -> "build"
StepPair(j) == ((j - 1) \div 3) + 1
AllZero(n) == \A j \in 1..n : steps[j].rc = 0
LastStep == steps[Len(steps)]

\* C1: the executed steps are a prefix of [create dir, configure, build] taken
\* pair by pair (outer presets, inner build types); only the last executed
\* step may have returned non-zero and main returns at once with that code;
\* directories exist only for the pairs reached; main returns 0, after the
\* banner, only when every pair configured and built with exit code 0.
C1_AbortOnFirstFailure ==
    /\ Len(steps) <= 3 * NPairs
    /\ \A j \in 1..Len(steps) :
          /\ steps[j].op = StepOp(j)
          /\ steps[j].preset = PairPreset(StepPair(j))
          /\ steps[j].build_type = PairBuildType(StepPair(j))
    /\ AllZero(Len(steps) - 1)
    /\ dirs = {<<PairPreset(k), PairBuildType(k)>> : k \in 1..((Len(steps) + 2) \div 3)}
    /\ (bpc # "returned") => (ret = NoRet /\ AllZero(Len(steps)) /\ ~banner)
    /\ (bpc = "returned") =>
          \/ /\ steps # <<>> /\ LastStep.rc # 0 /\ LastStep.op # "mkdir"
             /\ ret = LastStep.rc /\ ~banner
          \/ /\ Len(steps) = 3 * NPairs /\ AllZero(Len(steps))
             /\ ret = 0 /\ banner

\* a run that configured and built at least one pair, then failed with pairs
\* still to come
C1_Witness ==
    /\ bpc = "returned" /\ ret # 0
    /\ Len(steps) > 3
    /\ Len(steps) <= 3 * (NPairs - 1)

\* a run of four distinct pairs that all succeeded
C1_WitnessAllPairs ==
    /\ bpc = "returned" /\ ret = 0 /\ banner
    /\ Cardinality(dirs) = 4

\* the last build step executed
LastBuild ==
    LET B == {j \in 1..Len(steps) : steps[j].op = "build"}
    IN  steps[CHOOSE j \in B : \A k \in B : k <= j]

TargetAt == {i \in 1..Len(build_cmd) : build_cmd[i] = Arg("--target")}

\* C9 as stated: with packages requested the build command has one --target
\* followed by a single argument, whatever the number of packages; with no
\* package there is no --target.
C9_SingleCombinedArgument ==
    (build_cmd # <<>>) =>
        IF packages # <<>>
        THEN /\ Cardinality(TargetAt) = 1
             /\ \A i \in TargetAt : Len(build_cmd) = i + 1
        ELSE TargetAt = {}

\* C9 amended: with packages requested the build command of every pair is
\* cmake --build <dir of the pair> --target followed by every requested
\* package name as an argument of its own, in the order requested; with no
\* package requested it is cmake --build <dir of the pair> and nothing more.
C9_TargetArguments ==
    (build_cmd # <<>>) =>
        /\ \E j \in 1..Len(steps) : steps[j].op = "build"
        /\ SubSeq(build_cmd, 1, 3) =
              <<Arg("cmake"), Arg("--build"), DirArg(LastBuild.preset, LastBuild.build_type)>>
        /\ IF packages # <<>>
           THEN /\ Len(build_cmd) = 4 + Len(packages)
                /\ build_cmd[4] = Arg("--target")
                /\ \A i \in 1..Len(packages) : build_cmd[4 + i] = Arg(packages[i])
           ELSE /\ Len(build_cmd) = 3
                /\ TargetAt = {}

\* the build command of a second pair, with two different packages requested
C9_Witness ==
    /\ build_cmd # <<>>
    /\ Len(packages) = 2 /\ packages[1] # packages[2]
    /\ Len(steps) >= 6
    /\ Len(build_cmd) = 6

(***************************************************************************)
(* gather_packages.py: descriptor files and verify_yaml                    *)
(***************************************************************************)
\* A YAML value found under the key name: a string, an integer, null or a
\* list (n is the integer, or the length of the list).
StrVal(x) == [ty |-> "str", s |-> x, n |-> 0]
IntVal(k) == [ty |-> "int", s |-> "", n |-> k]
ListVal(k) == [ty |-> "list", s |-> "", n |-> k]
NullVal == [ty |-> "null", s |-> "", n |-> 0]

PkgNames == {"A", "B"}
NameVals == {StrVal(x) : x \in PkgNames \cup {""}}
              \cup {IntVal(123), IntVal(0), NullVal, ListVal(0), ListVal(1)}

\* The text of a file by what it holds: nothing ("empty"), only white space
\* ("blank"), only comments ("comment"), a document that is the null scalar
\* (null, ~ or a bare ---: "null"), malformed YAML ("syntax"), a scalar or
\* list document ("scalar", "list"), or a mapping ("map") with or without the
\* key name; extra stands for the rest of the mapping.  bad_scalar says that
\* the document holds, anywhere, a scalar that resolves to a timestamp and
\* names no date (2001-02-30).
PlainText(c) ==
    [cls |-> c, has_name |-> FALSE, name |-> NullVal, extra |-> 0, bad_scalar |-> FALSE]
MapText(h, v, x) ==
    [cls |-> "map", has_name |-> h, name |-> v, extra |-> x, bad_scalar |-> FALSE]
BadScalar(t) == [t EXCEPT !.bad_scalar = TRUE]
Texts ==
    {PlainText(c) : c \in {"empty", "blank", "comment", "null", "syntax", "scalar", "list"}}
      \cup {MapText(FALSE, NullVal, x) : x \in 0..MaxExtra}
      \cup {MapText(TRUE, v, x) : v \in NameVals, x \in 0..MaxExtra}
      \cup {BadScalar(PlainText(c)) : c \in {"scalar", "list"}}
      \cup {BadScalar(MapText(FALSE, NullVal, 1))}
      \cup {BadScalar(MapText(TRUE, v, 1)) : v \in {StrVal("A"), IntVal(123)}}

\* A path: nothing there, a file that cannot be read as text (undecodable
\* bytes), a directory, a readable file, or a path that stat() fails on with
\* an error other than "not found" (a component longer than NAME_MAX, a
\* directory that may not be searched).
NoFile == [exists |-> FALSE, stat_error |-> FALSE, readable |-> FALSE, is_dir |-> FALSE,
           read_only |-> FALSE, inner |-> FALSE, text |-> PlainText("empty")]
BadFile == [exists |-> TRUE, stat_error |-> FALSE, readable |-> FALSE, is_dir |-> FALSE,
            read_only |-> FALSE, inner |-> FALSE, text |-> PlainText("empty")]
DirFile == [exists |-> TRUE, stat_error |-> FALSE, readable |-> FALSE, is_dir |-> TRUE,
            read_only |-> FALSE, inner |-> FALSE, text |-> PlainText("empty")]
TextFile(t) == [exists |-> TRUE, stat_error |-> FALSE, readable |-> TRUE, is_dir |-> FALSE,
                read_only |-> FALSE, inner |-> FALSE, text |-> t]
StatErrorFile == [exists |-> FALSE, stat_error |-> TRUE, readable |-> FALSE,
                  is_dir |-> FALSE, read_only |-> FALSE, inner |-> FALSE,
                  text |-> PlainText("empty")]
ReadOnly(f) == [f EXCEPT !.read_only = TRUE]
Files == {NoFile, BadFile, DirFile, StatErrorFile} \cup {TextFile(t) : t \in Texts}

\* Path.exists(): False where nothing is found, OSError where stat() fails
\* otherwise
Exists(f) == IF f.stat_error THEN "OSError" ELSE IF f.exists THEN "True" ELSE "False"

\* Python values: None, and what yaml.safe_load returns
NoneData == [root |-> "none", has_name |-> FALSE, name |-> NullVal, extra |-> 0]
NoMsg == "<None>"

\* line 76: content.strip() is empty
StripEmpty(t) == t.cls \in {"empty", "blank"}

\* line 80: yaml.safe_load(content): a syntax error raises yaml.YAMLError; a
\* timestamp scalar that names no date raises ValueError when the document is
\* constructed; a document of comments or of the null scalar loads as None, a
\* mapping as a dict, any other scalar or a list as str, int or list
SafeLoad(t) ==
    CASE t.cls = "syntax" -> [raises |-> "YAMLError", data |-> NoneData]
      [] t.cls # "syntax" /\ t.bad_scalar -> [raises |-> "ValueError", data |-> NoneData]
      [] t.cls \in {"empty", "blank", "comment", "null"} /\ ~t.bad_scalar ->
            [raises |-> "", data |-> NoneData]
      [] t.cls \in {"scalar", "list"} /\ ~t.bad_scalar ->
            [raises |-> "",
             data |-> [root |-> "other", has_name |-> FALSE, name |-> NullVal, extra |-> 0]]
      [] OTHER ->
            [raises |-> "",
             data |-> [root |-> "dict", has_name |-> t.has_name, name |-> t.name,
                       extra |-> t.extra]]

\* Python truth value of a YAML value (line 92: not data['name'])
Truthy(v) ==
    CASE v.ty = "str" -> v.s # ""
      [] v.ty = "int" -> v.n # 0
      [] v.ty = "list" -> v.n > 0
      [] OTHER -> FALSE
\* line 92: isinstance(data['name'], str)
IsStr(v) == v.ty = "str"

\* line 92: not data['name'] or not isinstance(data['name'], str)
NameRejected(v) == ~Truthy(v) \/ ~IsStr(v)

\* the returned tuple (is_valid, parsed_data, error_message); exc is empty
Invalid(msg) == [is_valid |-> FALSE, data |-> NoneData, error_msg |-> msg, exc |-> ""]
Valid(data) == [is_valid |-> TRUE, data |-> data, error_msg |-> NoMsg, exc |-> ""]
\* no tuple is returned: the exception exc leaves the function
Raises(exc) == [is_valid |-> FALSE, data |-> NoneData, error_msg |-> NoMsg, exc |-> exc]

\* lines 57-103.  The exists() of line 68 is outside the try: its OSError
\* leaves the function.  Inside the try, yaml.YAMLError gives the syntax
\* error reason (line 101) and any other exception, from open, read or
\* safe_load, the reading error reason (line 103).
verify_yaml(f, vb) ==
    IF Exists(f) = "OSError" THEN Raises("OSError")
    ELSE IF Exists(f) = "False" THEN Invalid("File does not exist")
    ELSE IF ~f.readable THEN Invalid("Error reading file")
    ELSE IF StripEmpty(f.text) THEN Invalid("YAML file is empty")
    ELSE LET loaded == SafeLoad(f.text)
             data == loaded.data
         IN  IF loaded.raises = "YAMLError" THEN Invalid("YAML syntax error")
             ELSE IF loaded.raises # "" THEN Invalid("Error reading file")
             ELSE IF data.root = "none"
                  THEN Invalid("YAML file is empty or contains only comments")
             ELSE IF data.root # "dict"
                  THEN Invalid("YAML root must be a dictionary")
             ELSE IF ~data.has_name THEN Invalid("Missing required field: 'name'")
             ELSE IF NameRejected(data.name)
                  THEN Invalid("Field 'name' must be a non-empty string")
             ELSE Valid(data)

NotCalled == [is_valid |-> FALSE, data |-> NoneData, error_msg |-> "<not called>",
              exc |-> ""]

InitVerify ==
    /\ vfile \in Files
    /\ verbose \in BOOLEAN
    /\ vpc = "call"
    /\ vresult = NotCalled
    /\ BuildOff /\ GatherOff

\* a caller applies verify_yaml to the file
VerifyYaml ==
    /\ vpc = "call"
    /\ vresult' = verify_yaml(vfile, verbose)
    /\ vpc' = IF verify_yaml(vfile, verbose).exc = "" THEN "returned" ELSE "raised"
    /\ UNCHANGED <<vfile, verbose, buildVars, gatherVars>>

NextVerify == VerifyYaml

SpecVerify == InitVerify /\ [][NextVerify]_vars

(***************************************************************************)
(* verify_yaml: claims                                                     *)
(***************************************************************************)
\* the checks of the claim, as properties of the file.  A document of
\* comments or of the null scalar has no content; a document that cannot be
\* loaded, for its syntax or for the value of a scalar, fails to parse.
FileMissing(f) == ~f.exists
EmptyContent(f) == f.text.cls \in {"empty", "blank", "comment", "null"}
ParseError(f) == f.text.cls = "syntax" \/ f.text.bad_scalar
NonMappingRoot(f) == f.text.cls \in {"scalar", "list"}
MissingName(f) == f.text.cls = "map" /\ ~f.text.has_name
BadName(f) ==
    /\ f.text.cls = "map" /\ f.text.has_name
    /\ ~(f.text.name.ty = "str" /\ f.text.name.s # "")
EmptyReasons == {"YAML file is empty", "YAML file is empty or contains only comments"}
ParseReasons == {"YAML syntax error", "Error reading file"}

\* the reason the first failing check gives, in the order missing file, empty
\* content, parse error, non-mapping root, missing name, bad name
FirstFailingReason(f) ==
    IF FileMissing(f) THEN {"File does not exist"}
    ELSE IF EmptyContent(f) THEN EmptyReasons
    ELSE IF ParseError(f) THEN ParseReasons
    ELSE IF NonMappingRoot(f) THEN {"YAML root must be a dictionary"}
    ELSE IF MissingName(f) THEN {"Missing required field: 'name'"}
    ELSE IF BadName(f) THEN {"Field 'name' must be a non-empty string"}
    ELSE {}

\* the result is (valid, the parsed mapping, no reason) or (invalid, no
\* content, a reason); it is valid exactly when the file loads as a mapping
\* whose name is a non-empty string; a file that is missing or can be read is
\* rejected with the reason of the first failing check
ResultAsClaimed ==
    /\ \/ /\ vresult.is_valid /\ vresult.error_msg = NoMsg
          /\ vresult.data.root = "dict"
          /\ vresult.data.has_name /\ vresult.data.name = vfile.text.name
          /\ vresult.data.extra = vfile.text.extra
       \/ /\ ~vresult.is_valid /\ vresult.data = NoneData
          /\ vresult.error_msg # NoMsg
    /\ vresult.is_valid <=>
          /\ vfile.exists /\ vfile.readable
          /\ vfile.text.cls = "map" /\ ~vfile.text.bad_scalar
          /\ vfile.text.has_name
          /\ vfile.text.name.ty = "str" /\ vfile.text.name.s # ""
    /\ (vfile.readable \/ ~vfile.exists) =>
          IF vresult.is_valid
          THEN FirstFailingReason(vfile) = {}
          ELSE vresult.error_msg \in FirstFailingReason(vfile)

\* C10 as stated: for every file state verify_yaml returns, and what it
\* returns is (valid, the parsed mapping, no reason) or (invalid, no content,
\* a reason), never a mixture; it is valid exactly when the root is a mapping
\* whose name is a non-empty string, and it rejects with the first failing
\* check in the order missing file, empty content, parse error, non-mapping
\* root, missing name, non-string or empty name.
C10_VerifyYamlResult ==
    (vpc # "call") => (vpc = "returned" /\ ResultAsClaimed)

\* whenever verify_yaml does return, it returns what C10 says
VerifyYamlWhenReturned == (vpc = "returned") => ResultAsClaimed

\* verify_yaml raises only where the path cannot be examined
VerifyYamlRaisesOnStatError == (vpc = "raised") <=> (vpc # "call" /\ vfile.stat_error)

(***************************************************************************)
(* gather_packages.py: main and gather_packages_from_manifest              *)
(***************************************************************************)
\* The value under a key of the manifest, by what its replace and split
\* methods do with string arguments: a string ("str"); None, an integer or a
\* list, which have neither method ("none"); a date, which has a replace
\* that takes no strings and no split ("date"); bytes, whose replace and
\* split take no strings ("bytes").
ValueTypes == {"str", "none", "date", "bytes"}

\* lines 145, 250: value.replace('${CUR_MANIFEST_FILE_DIR}', str(manifest_dir))
ReplaceRaises(ty) ==
    CASE ty = "str" -> ""
      [] ty \in {"date", "bytes"} -> "TypeError"
      [] OTHER -> "AttributeError"

\* line 151: git_url.split('@')
SplitRaises(ty) ==
    CASE ty = "str" -> ""
      [] ty = "bytes" -> "TypeError"
      [] OTHER -> "AttributeError"

\* A manifest entry as yaml.safe_load gives it: None (an empty list item), or
\* a mapping that may carry the keys local and git, each with the type of its
\* value; local is the package path that lines 145-147 make of a string.
NullEntry ==
    [null |-> TRUE, has_local |-> FALSE, local_ty |-> "none", local |-> "",
     has_git |-> FALSE, git_ty |-> "none"]
LocalEntry(p) ==
    [null |-> FALSE, has_local |-> TRUE, local_ty |-> "str", local |-> p,
     has_git |-> FALSE, git_ty |-> "none"]
LocalNoString(ty) ==
    [null |-> FALSE, has_local |-> TRUE, local_ty |-> ty, local |-> "",
     has_git |-> FALSE, git_ty |-> "none"]
GitEntry ==
    [null |-> FALSE, has_local |-> FALSE, local_ty |-> "none", local |-> "",
     has_git |-> TRUE, git_ty |-> "str"]
GitNoString(ty) ==
    [null |-> FALSE, has_local |-> FALSE, local_ty |-> "none", local |-> "",
     has_git |-> TRUE, git_ty |-> ty]
BothEntry(p) ==
    [null |-> FALSE, has_local |-> TRUE, local_ty |-> "str", local |-> p,
     has_git |-> TRUE, git_ty |-> "str"]
EmptyEntry ==
    [null |-> FALSE, has_local |-> FALSE, local_ty |-> "none", local |-> "",
     has_git |-> FALSE, git_ty |-> "none"]

\* The package paths of the manifests.  CachePath is a path inside the cache
\* directory, cache_dir/A; the others lie outside it.
CachePath == "cA"
CacheSlotName == "A"
DiskPaths == {"pA1", "pA2", "pB", "pBad", "pNoDesc", "pMissing", "pLong"}
PkgPaths == DiskPaths \cup {CachePath}
Entries == {LocalEntry(p) : p \in PkgPaths}
             \cup {GitEntry, BothEntry("pA1"), EmptyEntry, NullEntry}
             \cup {LocalNoString(ty) : ty \in ValueTypes \ {"str"}}
             \cup {GitNoString(ty) : ty \in ValueTypes \ {"str"}}

\* What is at a path: nothing ("missing"), a directory with what is at
\* ArieoPackage.yaml below it ("dir"), a regular file ("file"), or a path
\* stat() fails on ("stat_error").
Node(k, f) == [kind |-> k, desc |-> f]

\* The package directories outside the cache directory: pA1 and pA2 both
\* declare the name A with different contents, and the descriptor of pA2 has
\* no write permission; pB declares B, pBad has a
\* descriptor without name, pNoDesc is a directory without descriptor,
\* pMissing does not exist, pLong is a path stat() fails on.
Disk ==
    [p \in DiskPaths |->
        CASE p = "pA1" -> Node("dir", TextFile(MapText(TRUE, StrVal("A"), 1)))
          [] p = "pA2" -> Node("dir", ReadOnly(TextFile(MapText(TRUE, StrVal("A"), 2))))
          [] p = "pB" -> Node("dir", TextFile(MapText(TRUE, StrVal("B"), 1)))
          [] p = "pBad" -> Node("dir", TextFile(MapText(FALSE, NullVal, 0)))
          [] p = "pNoDesc" -> Node("dir", NoFile)
          [] p = "pLong" -> Node("stat_error", StatErrorFile)
          [] OTHER -> Node("missing", NoFile)]

\* The cache directory: whether it exists and, for each name, what is at
\* cache_dir/name: nothing ("absent"), a regular file, or a subdirectory with
\* what is at cache_dir/name/ArieoPackage.yaml.  Before a run cache_dir/A may
\* hold an older descriptor of A, the descriptor of a package that declares
\* another name (a package kept inside the cache directory), a directory in
\* the descriptor's place, or be a regular file; cache_dir/B may hold an older
\* descriptor of B.
AbsentSlot == Node("absent", NoFile)
StaleSlot(n) == Node("dir", TextFile(MapText(TRUE, StrVal(n), 0)))
ForeignSlot == Node("dir", TextFile(MapText(TRUE, StrVal("B"), 2)))
DirDescSlot == Node("dir", DirFile)
FileSlot == Node("file", NoFile)
NoCache == [exists |-> FALSE, sub |-> [n \in PkgNames |-> AbsentSlot]]
Caches ==
    {NoCache} \cup
    {[exists |-> TRUE, sub |-> [n \in PkgNames |-> IF n = "A" THEN a ELSE b]] :
        a \in {AbsentSlot, StaleSlot("A"), ForeignSlot, DirDescSlot, FileSlot},
        b \in {AbsentSlot, StaleSlot("B")}}

\* what is at a package path: below the cache directory it is what the cache
\* holds there
Lookup(p, disk, c) ==
    IF p = CachePath
    THEN IF c.exists /\ c.sub[CacheSlotName].kind # "absent"
         THEN c.sub[CacheSlotName]
         ELSE Node("missing", NoFile)
    ELSE disk[p]

\* The loaded manifest: whether it has the key packages, the list under it,
\* and the type of manifest.get('pachages_cache_folder', './.cache') ("str":
\* the key's string value or the default).  The entries play no part in a
\* run whose cache folder value is no string, so those manifests carry at
\* most one.
NoManifest == [has_packages |-> FALSE, packages |-> <<>>, cache_folder |-> "str"]
Manifests ==
    {[has_packages |-> FALSE, packages |-> <<>>, cache_folder |-> c] : c \in ValueTypes}
      \cup {[has_packages |-> TRUE, packages |-> q, cache_folder |-> "str"] :
               q \in SeqsUpTo(Entries, MaxEntries)}
      \cup {[has_packages |-> TRUE, packages |-> q, cache_folder |-> c] :
               q \in SeqsUpTo(Entries, 1), c \in ValueTypes \ {"str"}}

\* line 120: manifest.get('packages', [])
PackagesList(m) == IF m.has_packages THEN m.packages ELSE <<>>

\* a clean that is never carried out
CleanCacheSkipped(cl, c) == c

\* lines 127-130: if clean and cache_dir.exists(): shutil.rmtree(cache_dir)
\* removes the directory with all that lies below it
CleanCache(cl, c) == IF cl /\ c.exists THEN NoCache ELSE c

\* line 132: cache_dir.mkdir(parents=True, exist_ok=True)
MkdirCache(c) == [c EXCEPT !.exists = TRUE]

\* lines 142, 148, 157: 'local' in entry is tried first and raises TypeError
\* on None; then 'git' in entry; anything else is an unknown entry format
EntryTag(e) ==
    IF e.null THEN "raise"
    ELSE IF e.has_local THEN "local"
    ELSE IF e.has_git THEN "git"
    ELSE "unknown"

\* line 185: pkg_name = pkg_data['name']
DestName(pkg_data) == pkg_data.name.s

\* line 189: dest_folder.mkdir(parents=True, exist_ok=True): an existing
\* directory is left as it is, a regular file in its place raises
\* FileExistsError
MkdirDest(slot) ==
    CASE slot.kind = "absent" -> [ok |-> TRUE, slot |-> Node("dir", NoFile)]
      [] slot.kind = "dir" -> [ok |-> TRUE, slot |-> slot]
      [] OTHER -> [ok |-> FALSE, slot |-> slot]

\* line 194: shutil.copy2(arieo_yaml_path, dest_path): raises SameFileError
\* when dest_path is the source itself and PermissionError when the file it
\* has to write exists without write permission, unless file modes do not
\* bind the process; copies into dest_path when that is a directory, which
\* stays one; otherwise writes the source's content to dest_path.  The
\* written file gets the source's mode.
Copy2(src, slot, same_file, su) ==
    LET dst == slot.desc
        written == IF dst.is_dir THEN dst.inner ELSE dst.exists
    IN  IF same_file THEN [ok |-> FALSE, exc |-> "SameFileError", slot |-> slot]
        ELSE IF written /\ dst.read_only /\ ~su
             THEN [ok |-> FALSE, exc |-> "PermissionError", slot |-> slot]
        ELSE IF dst.is_dir
             THEN [ok |-> TRUE, exc |-> "",
                   slot |-> [slot EXCEPT !.desc = [dst EXCEPT !.inner = TRUE,
                                                              !.text = src.text,
                                                              !.read_only = src.read_only]]]
        ELSE [ok |-> TRUE, exc |-> "",
              slot |-> [slot EXCEPT !.desc = [TextFile(src.text) EXCEPT
                                                 !.read_only = src.read_only]]]

\* line 163: package_path.exists()
PathExists(node) ==
    CASE node.kind = "stat_error" -> "OSError"
      [] node.kind = "missing" -> "False"
      [] OTHER -> "True"

\* line 171: arieo_yaml_path.exists(); below a path that is no directory
\* nothing is found
DescriptorExists(node) == IF node.kind = "dir" THEN Exists(node.desc) ELSE "False"

\* the result of one iteration: what was counted, the cache after it, the
\* exception that left it, the name copied under
Outcome(o, c, x) == [out |-> o, cache |-> c, exc |-> x, name |-> ""]
CopiedAs(c, n) == [out |-> "copied", cache |-> c, exc |-> "", name |-> n]

\* lines 140-200: the body of the loop for one entry.  No statement of it is
\* inside a try: the TypeError of line 142 on None, the exception of
\* local_path.replace (line 145) or git_url.split (line 151) on a value that
\* is no string, the OSError of an exists() that cannot stat its path (lines
\* 163, 171), the FileExistsError of line 189 and the SameFileError or
\* PermissionError of line 194 leave the function.  Package names are single path components, so
\* cache_dir / pkg_name is the subdirectory of that name.
HandleEntry(e, disk, c, su) ==
    LET tag == EntryTag(e) IN
    IF tag = "raise" THEN Outcome("raise", c, "TypeError")
    ELSE IF tag = "git"
         THEN IF SplitRaises(e.git_ty) = "" THEN Outcome("skipped", c, "")
              ELSE Outcome("raise", c, SplitRaises(e.git_ty))
    ELSE IF tag = "unknown" THEN Outcome("error", c, "")
    ELSE IF ReplaceRaises(e.local_ty) # ""
         THEN Outcome("raise", c, ReplaceRaises(e.local_ty))
    ELSE LET package_path == Lookup(e.local, disk, c)
             arieo_yaml_path == package_path.desc
         IN  IF PathExists(package_path) = "OSError" THEN Outcome("raise", c, "OSError")
             ELSE IF PathExists(package_path) = "False" THEN Outcome("error", c, "")
             ELSE IF DescriptorExists(package_path) = "OSError"
                  THEN Outcome("raise", c, "OSError")
             ELSE IF DescriptorExists(package_path) = "False"
                  THEN Outcome("error", c, "")
             ELSE LET v == verify_yaml(arieo_yaml_path, FALSE) IN
                  IF v.exc # "" THEN Outcome("raise", c, v.exc)
                  ELSE IF ~v.is_valid THEN Outcome("error", c, "")
                  ELSE LET pkg_name == DestName(v.data)
                           made == MkdirDest(c.sub[pkg_name])
                           same_file == e.local = CachePath /\ pkg_name = CacheSlotName
                           copy == Copy2(arieo_yaml_path, made.slot, same_file, su)
                       IN  IF ~made.ok THEN Outcome("raise", c, "FileExistsError")
                           ELSE IF ~copy.ok THEN Outcome("raise", c, copy.exc)
                           ELSE CopiedAs([c EXCEPT !.sub[pkg_name] = copy.slot], pkg_name)

\* line 272: sys.exit(0 if count > 0 else 1)
ExitStatus(cnt) == IF cnt > 0 THEN 0 ELSE 1

NoSnap == [cache0 |-> NoCache, cache |-> NoCache, copied |-> 0, skipped |-> 0,
           errors |-> 0, status |-> NoRet, raised |-> ""]

InitGather ==
    /\ mfile \in {"missing", "stat_error", "unreadable", "ok"}
    /\ manifest \in Manifests
    /\ (mfile # "ok") => (manifest = NoManifest)
    /\ clean \in BOOLEAN
    /\ superuser \in BOOLEAN
    /\ pkgs = Disk
    /\ cache \in Caches
    /\ cache_before = cache
    /\ gpc = "load" /\ idx = 0
    /\ copied_count = 0 /\ skipped_count = 0 /\ error_count = 0 /\ outcomes = <<>>
    /\ count = NoRet /\ raised = "" /\ exit_status = NoRet
    /\ run = "first" /\ snap = NoSnap
    /\ BuildOff /\ VerifyOff

\* lines 20-54, 245: load_manifest exits with status 1 when the file is
\* missing or cannot be read and parsed into a mapping; the exists() of
\* lines 33 and 41 is outside the try, its OSError ends the process
LoadManifest ==
    /\ gpc = "load"
    /\ CASE mfile = "ok" -> gpc' = "cache_dir" /\ UNCHANGED <<exit_status, raised>>
         [] mfile = "stat_error" ->
                gpc' = "exit" /\ exit_status' = 1 /\ raised' = "OSError"
         [] OTHER -> gpc' = "exit" /\ exit_status' = 1 /\ raised' = raised
    /\ UNCHANGED <<mfile, manifest, clean, superuser, pkgs, cache, idx, copied_count,
                   skipped_count, error_count, outcomes, count, run, cache_before,
                   snap>>
    /\ UNCHANGED <<buildVars, verifyVars>>

\* lines 246-257: the cache directory is computed from
\* manifest.get('pachages_cache_folder', './.cache'); the replace of line 250
\* raises on a value that is no string, which ends the process before
\* gather_packages_from_manifest is called
ResolveCacheDir ==
    /\ gpc = "cache_dir"
    /\ IF ReplaceRaises(manifest.cache_folder) = ""
       THEN gpc' = "gather" /\ UNCHANGED <<exit_status, raised>>
       ELSE /\ gpc' = "exit" /\ exit_status' = 1
            /\ raised' = ReplaceRaises(manifest.cache_folder)
    /\ UNCHANGED <<mfile, manifest, clean, superuser, pkgs, cache, idx, copied_count,
                   skipped_count, error_count, outcomes, count, run, cache_before,
                   snap>>
    /\ UNCHANGED <<buildVars, verifyVars>>

\* lines 119-138: with no entries return 0 at once; otherwise clean if asked,
\* make the cache directory, zero the counters
GatherBegin ==
    /\ gpc = "gather"
    /\ IF PackagesList(manifest) = <<>>
       THEN /\ count' = 0
            /\ gpc' = "main"
            /\ UNCHANGED <<cache, idx, copied_count, skipped_count, error_count>>
       ELSE /\ cache' = MkdirCache(CleanCache(clean, cache))
            /\ copied_count' = 0 /\ skipped_count' = 0 /\ error_count' = 0
            /\ idx' = 1
            /\ gpc' = "loop"
            /\ count' = count
    /\ UNCHANGED <<mfile, manifest, clean, superuser, pkgs, outcomes, raised, exit_status, run,
                   cache_before, snap>>
    /\ UNCHANGED <<buildVars, verifyVars>>

\* lines 140-200: one iteration of the loop, with the line it prints.  An
\* exception is caught nowhere: it ends the process with a traceback and
\* exit status 1.
LoopStep ==
    /\ gpc = "loop"
    /\ idx <= Len(PackagesList(manifest))
    /\ LET r == HandleEntry(PackagesList(manifest)[idx], pkgs, cache, superuser) IN
        /\ cache' = r.cache
        /\ copied_count' = IF r.out = "copied" THEN copied_count + 1 ELSE copied_count
        /\ skipped_count' = IF r.out = "skipped" THEN skipped_count + 1 ELSE skipped_count
        /\ error_count' = IF r.out = "error" THEN error_count + 1 ELSE error_count
        /\ IF r.out = "raise"
           THEN /\ raised' = r.exc
                /\ exit_status' = 1
                /\ gpc' = "exit"
                /\ idx' = idx
                /\ outcomes' = outcomes
           ELSE /\ idx' = idx + 1
                /\ outcomes' = Append(outcomes, [out |-> r.out, name |-> r.name])
                /\ UNCHANGED <<raised, exit_status, gpc>>
    /\ UNCHANGED <<mfile, manifest, clean, superuser, pkgs, count, run, cache_before, snap>>
    /\ UNCHANGED <<buildVars, verifyVars>>

\* lines 202-209, 263: the results report; return copied_count
LoopEnd ==
    /\ gpc = "loop"
    /\ idx > Len(PackagesList(manifest))
    /\ count' = copied_count
    /\ gpc' = "main"
    /\ UNCHANGED <<mfile, manifest, clean, superuser, pkgs, cache, idx, copied_count,
                   skipped_count, error_count, outcomes, raised, exit_status, run,
                   cache_before, snap>>
    /\ UNCHANGED <<buildVars, verifyVars>>

\* lines 265-272
MainExit ==
    /\ gpc = "main"
    /\ exit_status' = ExitStatus(count)
    /\ gpc' = "exit"
    /\ UNCHANGED <<mfile, manifest, clean, superuser, pkgs, cache, idx, copied_count,
                   skipped_count, error_count, outcomes, count, raised, run,
                   cache_before, snap>>
    /\ UNCHANGED <<buildVars, verifyVars>>

\* lines 275-276: the script is invoked a second time with the same
\* arguments and manifest, on the files the first invocation left
Rerun ==
    /\ gpc = "exit"
    /\ run = "first"
    /\ run' = "second"
    /\ snap' = [cache0 |-> cache_before, cache |-> cache, copied |-> copied_count,
                skipped |-> skipped_count, errors |-> error_count,
                status |-> exit_status, raised |-> raised]
    /\ cache_before' = cache
    /\ gpc' = "load" /\ idx' = 0
    /\ copied_count' = 0 /\ skipped_count' = 0 /\ error_count' = 0 /\ outcomes' = <<>>
    /\ count' = NoRet /\ raised' = "" /\ exit_status' = NoRet
    /\ UNCHANGED <<mfile, manifest, clean, superuser, pkgs, cache>>
    /\ UNCHANGED <<buildVars, verifyVars>>

NextGather ==
    LoadManifest \/ ResolveCacheDir \/ GatherBegin \/ LoopStep \/ LoopEnd
        \/ MainExit \/ Rerun

SpecGather == InitGather /\ [][NextGather]_vars

(***************************************************************************)
(* Gatherer: claims                                                        *)
(***************************************************************************)
TheEntries == PackagesList(manifest)
\* gather_packages_from_manifest was entered in this invocation: the loop
\* was started or the function returned
Gathered == mfile = "ok" /\ gpc \in {"loop", "main", "exit"} /\ (idx >= 1 \/ count # NoRet)
\* the manifest was loaded and the process has ended
Exited == mfile = "ok" /\ gpc = "exit"
\* the process has ended after gather_packages_from_manifest was entered
GatherEnded == Gathered /\ gpc = "exit"

\* a descriptor that passes validation: a readable mapping whose name is a
\* non-empty string
DescriptorOk(f) ==
    /\ f.exists /\ f.readable /\ f.text.cls = "map" /\ f.text.has_name
    /\ ~f.text.bad_scalar
    /\ f.text.name.ty = "str" /\ f.text.name.s # ""
\* an entry whose local tag is a path string
LocalStr(e) == ~e.null /\ e.has_local /\ e.local_ty = "str"
\* what is at the path of a local entry when the cache directory is c
Source(e, c) == Lookup(e.local, pkgs, c)
\* a local entry whose path is a directory with a valid descriptor
ValidAt(e, c) ==
    /\ LocalStr(e)
    /\ Source(e, c).kind = "dir"
    /\ DescriptorOk(Source(e, c).desc)
\* the valid local entries and the names they declare are those of the
\* files the invocation started on
ValidLocal(e) == ValidAt(e, cache_before)
DeclaredName(e) == Source(e, cache_before).desc.text.name.s
\* the positions of the valid local entries declaring name n
Declaring(n) ==
    {i \in 1..Len(TheEntries) : ValidLocal(TheEntries[i]) /\ DeclaredName(TheEntries[i]) = n}
Last(I) == CHOOSE i \in I : \A j \in I : j <= i
\* cache_dir/n is a directory whose descriptor is the copy of entry i's
HoldsCopyOf(n, i) ==
    /\ cache.sub[n].kind = "dir"
    /\ cache.sub[n].desc = Source(TheEntries[i], cache_before).desc

\* C2 as stated: once the manifest has loaded, the exit status is 0 if and
\* only if at least one package was copied, and 1 otherwise.
C2_ExitStatusIffCopied ==
    Exited => /\ exit_status \in {0, 1}
              /\ (exit_status = 0) <=> (copied_count >= 1)

\* an entry whose handling fails at some stage: None, neither tag, a tag
\* without a string value, a path that is no directory, no descriptor, an
\* invalid descriptor, a destination that cannot be created or written
EntryFails(e) ==
    \/ e.null
    \/ ~e.has_local /\ ~e.has_git
    \/ ~e.null /\ e.has_local /\ ~ValidAt(e, cache)
    \/ ~e.null /\ ~e.has_local /\ e.has_git /\ e.git_ty # "str"
    \/ ValidAt(e, cache) /\ HandleEntry(e, pkgs, cache, superuser).out # "copied"

\* C3 as stated: a failure at any stage of handling entry i counts one error,
\* touches no other counter and the loop continues with entry i+1.
C3_PerEntryIsolation ==
    [][(gpc = "loop" /\ idx <= Len(TheEntries) /\ EntryFails(TheEntries[idx]))
          => /\ error_count' = error_count + 1
             /\ copied_count' = copied_count /\ skipped_count' = skipped_count
             /\ idx' = idx + 1 /\ gpc' = "loop"]_vars

\* the entries this invocation reported as copied under name n
CopiedUnder(n) ==
    {i \in 1..Len(outcomes) : outcomes[i].out = "copied" /\ outcomes[i].name = n}
\* the cache holds what this invocation copied and nothing else: a name
\* nothing was copied under is absent, any other name holds the descriptor
\* of the last entry copied under it
OnlyThisRun ==
    /\ cache.exists
    /\ \A n \in PkgNames :
          IF CopiedUnder(n) = {}
          THEN cache.sub[n].kind = "absent"
          ELSE /\ cache.sub[n].kind = "dir"
               /\ cache.sub[n].desc = Source(TheEntries[Last(CopiedUnder(n))], cache).desc
HadStale(c) == c.exists /\ \E n \in PkgNames : c.sub[n].kind # "absent"

\* C4 as stated: after a run with clean on an existing cache directory with
\* stale content, the cache holds only what this run copied, an empty or
\* missing packages list included.
C4_CleanLeavesOnlyThisRun ==
    (GatherEnded /\ clean /\ HadStale(cache_before)) => OnlyThisRun

\* C4 amended: with clean on an existing cache directory with stale content
\* and a non-empty packages list, from the start of the loop on the cache
\* holds only what this run copied; with an empty or missing packages list
\* the cache is left exactly as it was.
C4_CleanNonEmptyManifest ==
    (Gathered /\ clean /\ HadStale(cache_before)) =>
        IF TheEntries # <<>> THEN OnlyThisRun ELSE cache = cache_before

\* a clean run ended normally, dropped a stale subdirectory and copied another
C4_Witness ==
    /\ Exited /\ clean /\ raised = "" /\ run = "first"
    /\ cache_before.sub["B"].kind = "dir" /\ cache.sub["B"].kind = "absent"
    /\ cache_before.sub["A"].kind = "absent" /\ cache.sub["A"].kind = "dir"
    /\ copied_count = 1

\* a clean run on an empty packages list left the stale content in place
C4_WitnessEmpty ==
    /\ Exited /\ clean /\ manifest.has_packages /\ TheEntries = <<>>
    /\ HadStale(cache_before) /\ cache = cache_before

\* C5 as stated: when two or more valid local entries declare the same name,
\* after the run the cache holds that name once, with the copy of the last
\* such entry, and every valid local entry was counted as copied.
C5_LastWriterWins ==
    GatherEnded =>
        \A n \in PkgNames :
            (Cardinality(Declaring(n)) >= 2) =>
                /\ HoldsCopyOf(n, Last(Declaring(n)))
                /\ copied_count = Cardinality({i \in 1..Len(TheEntries) :
                                                  ValidLocal(TheEntries[i])})

\* the package directories the entries name are as the invocation found them
SourcesUntouched ==
    /\ pkgs = Disk
    /\ \A i \in 1..Len(TheEntries) :
          LocalStr(TheEntries[i]) =>
              Source(TheEntries[i], cache) = Source(TheEntries[i], cache_before)

\* C6 as stated: after gathering, every valid local entry whose name no other
\* entry declares has its descriptor copied under that name, and the package
\* directories are unchanged.
C6_UniqueNameCopied ==
    GatherEnded =>
        /\ SourcesUntouched
        /\ \A n \in PkgNames :
              (Cardinality(Declaring(n)) = 1) => HoldsCopyOf(n, Last(Declaring(n)))

GitStep(e) ==
    /\ skipped_count' = skipped_count + 1
    /\ copied_count' = copied_count /\ error_count' = error_count
    /\ cache' = cache /\ pkgs' = pkgs
    /\ idx' = idx + 1 /\ gpc' = "loop"

\* C7 as stated: handling any entry that carries a git tag counts one skip,
\* no copy and no error, writes nothing and the loop continues.
C7_GitTagSkipped ==
    [][(gpc = "loop" /\ idx <= Len(TheEntries) /\ TheEntries[idx].has_git)
          => GitStep(TheEntries[idx])]_vars

\* the source descriptors of the second invocation are those of the first
SourcesSame ==
    \A i \in 1..Len(TheEntries) :
        LocalStr(TheEntries[i]) =>
            Source(TheEntries[i], snap.cache0) = Source(TheEntries[i], cache_before)

\* C8 as stated: a second run without clean on the same manifest and the
\* same source descriptors ends with the cache content, the counters and the
\* exit status the first run ended with.
C8_SecondRunIdempotent ==
    (gpc = "exit" /\ run = "second" /\ ~clean /\ SourcesSame) =>
        /\ cache = snap.cache
        /\ copied_count = snap.copied
        /\ skipped_count = snap.skipped
        /\ error_count = snap.errors
        /\ exit_status = snap.status
        /\ raised = snap.raised

(***************************************************************************)
(* Gatherer: what holds of the invocations that no exception ended         *)
(***************************************************************************)
Returned == Exited /\ raised = ""

\* the exit status of an invocation that returned from the gather
ExitStatusWhenReturned ==
    Returned => ((exit_status = 0) <=> (copied_count >= 1))

\* the counters of an invocation that returned from the gather: every entry
\* was counted once, and the copied ones are the valid local entries
CountersWhenReturned ==
    (Returned /\ TheEntries # <<>>) =>
        /\ copied_count + skipped_count + error_count = Len(TheEntries)
        /\ Len(outcomes) = Len(TheEntries)
        /\ copied_count = Cardinality({i \in 1..Len(TheEntries) :
                                          outcomes[i].out = "copied"})

\* a git entry: the git tag with its URL string and no local tag
GitOnly(e) == ~e.null /\ e.has_git /\ e.git_ty = "str" /\ ~e.has_local

\* handling an entry that carries a git tag whose value is a string and no
\* local tag counts one skip, no copy and no error, writes nothing and the
\* loop continues; skipped counts exactly the entries of that kind handled
GitUrlEntrySkipped ==
    /\ [](Gathered =>
            skipped_count = Cardinality({i \in 1..Len(TheEntries) :
                                            i < idx /\ GitOnly(TheEntries[i])}))
    /\ [][(gpc = "loop" /\ idx <= Len(TheEntries) /\ GitOnly(TheEntries[idx]))
            => GitStep(TheEntries[idx])]_vars

\* no entry names a descriptor without write permission, or file modes do
\* not bind the process
ModesPermit ==
    superuser \/ \A i \in 1..Len(TheEntries) :
                    LocalStr(TheEntries[i]) =>
                        ~Source(TheEntries[i], snap.cache0).desc.read_only

\* where file modes permit every copy, a second run without clean on the
\* same manifest and source descriptors ends as the first run ended
SecondRunSameWhenModesPermit ==
    (gpc = "exit" /\ run = "second" /\ ~clean /\ SourcesSame /\ ModesPermit) =>
        /\ cache = snap.cache
        /\ copied_count = snap.copied
        /\ skipped_count = snap.skipped
        /\ error_count = snap.errors
        /\ exit_status = snap.status
        /\ raised = snap.raised

\* a second run without clean copied over what the first run had copied
SecondRunCopiedAgain ==
    /\ gpc = "exit" /\ run = "second" /\ ~clean /\ mfile = "ok"
    /\ SourcesSame /\ ModesPermit
    /\ copied_count = 2 /\ raised = ""
    /\ cache_before.sub["A"].kind = "dir" /\ cache_before.sub["B"].kind = "dir"

\* an exception ends the process only at the exists() of load_manifest, at
\* line 250 on a cache folder value that is no string, or in the loop: on an
\* entry that is None, on a tag whose value is no string, on a path that
\* stat() fails on, or at the mkdir and the copy of a valid local entry
RaisedOnlyOnMalformed ==
    (raised # "") =>
        /\ exit_status = 1 /\ gpc = "exit"
        /\ \/ mfile = "stat_error" /\ raised = "OSError"
           \/ /\ mfile = "ok" /\ ~Gathered
              /\ raised = ReplaceRaises(manifest.cache_folder)
           \/ /\ Gathered /\ idx <= Len(TheEntries)
              /\ LET e == TheEntries[idx] IN
                 \/ e.null /\ raised = "TypeError"
                 \/ /\ ~e.null /\ e.has_local /\ e.local_ty # "str"
                    /\ raised = ReplaceRaises(e.local_ty)
                 \/ /\ ~e.null /\ ~e.has_local /\ e.has_git /\ e.git_ty # "str"
                    /\ raised = SplitRaises(e.git_ty)
                 \/ /\ LocalStr(e) /\ Source(e, cache).kind = "stat_error"
                    /\ raised = "OSError"
                 \/ /\ ValidAt(e, cache)
                    /\ raised \in {"FileExistsError", "SameFileError", "PermissionError"}

====
